---- MODULE Spec2Model ----
(***************************************************************************)
(* Upload orchestration of the "ben" storage service: admission against    *)
(* pod capacity (FileService.stage_upload, initiate_multipart_upload), the *)
(* detached replication job (FileService.process_background_upload), the   *)
(* progress tracker bridging the SDK worker thread and the event loop, and *)
(* the record store (DumaStoredFileRepository).                            *)
(*                                                                         *)
(* All sizes are counted in KiB so that the source's byte constants        *)
(* (1024**3 per GB, MAX_FILE_SIZE_MB * 1024 * 1024) stay inside TLC's      *)
(* integers; the inputs are therefore files whose size is a multiple of    *)
(* 1 KiB.                                                                  *)
(***************************************************************************)
EXTENDS Integers, Sequences, FiniteSets, TLC

\* ------------------------------------------------------------------ bounds
MaxFiles == 2
MaxJobFiles == 1
MaxPods == 2

\* --------------------------------------------------------------- constants
KiBPerGB == 1048576
KiBPerMB == 1024
max_file_size_mb == 2048
EpochNow == 10

max_file_size_bytes == max_file_size_mb * KiBPerMB
HalfGB == KiBPerGB \div 2

allowed_file_types == {"video/mp4", "application/pdf"}
ContentTypes == {"video/mp4", "text/html"}

\* StorageProvider, in the fixed order in which the job examines the pod.
ProviderOrder == <<"aws_s3", "wasabi", "oracle_object_storage">>
Providers == {ProviderOrder[i] : i \in 1..3}

\* Upload sizes offered by clients: empty, half the pod, one KiB more than
\* half the pod, and one KiB over the global file-size limit.
FileSizes == {0, HalfGB, HalfGB + 1, max_file_size_bytes + 1}

PodIds == {1, 2}
UnknownPod == Cardinality(PodIds) + 1
FileIds == 1..MaxFiles

\* A pod's configuration of one provider: enable_<p>, use_custom_<p>, and
\* whether a StorageCredential row exists for (pod, provider).
ProviderModes ==
    { [enable |-> FALSE, use_custom |-> FALSE, has_creds |-> FALSE],
      [enable |-> TRUE,  use_custom |-> FALSE, has_creds |-> FALSE],
      [enable |-> TRUE,  use_custom |-> TRUE,  has_creds |-> TRUE],
      [enable |-> TRUE,  use_custom |-> TRUE,  has_creds |-> FALSE] }

NoUrl == [scheme |-> "", bucket |-> ""]
\* secondary_storage is NULL
NoProvider == "none"
NoReason == ""
NoSession == ""

\* A complete_multipart_upload call that has not started
IdleCompletion ==
    [pc |-> "idle", file_id |-> 0, upload_id |-> "", parts |-> << >>]

\* The concurrent callers of POST /files/upload and of
\* POST /files/complete-multipart-upload/{file_id}
MaxRequests == 2
RequestIds == 1..MaxRequests

\* A stage_upload call that has not started.  usage is what get_total_usage
\* returned to it, seen the number of rows committed at that moment, detail
\* the step that decided it and file_id the row it inserted.
IdleAdmission ==
    [pc |-> "idle", dumapod_id |-> 0, size |-> 0, usage |-> 0, seen |-> 0,
     detail |-> "none", file_id |-> 0]

VARIABLES
    pods,        \* dumapods table: pod id -> capacity and provider config
    records,     \* duma_stored_files table: sequence indexed by record id
    temp_files,  \* temp paths that exist on disk (named by their record id)
    job,         \* per record: position of process_background_upload
    tracker,     \* per record: the ProgressTracker instance of its job
    scheduled,   \* per record: update_upload_progress coroutines in flight
    sdk_calls,   \* <<record, provider>> pairs for which upload_fileobj ran
    multipart_upload_id,  \* per record: the provider session id stored on it
    multipart_calls,      \* the multipart requests sent to the provider, in order
    sizing,               \* a calculate_part_size call: argument and result
    admissions,           \* per request: a stage_upload call between its awaits
    clients,              \* per record: StorageRepository.clients of its job
    keys,                 \* per record: the storage keys generated for it
    initiation,           \* an initiate_multipart_upload call past its checks
    completions           \* per request: a complete_multipart_upload call

vars == <<pods, records, temp_files, job, tracker, scheduled, sdk_calls,
          multipart_upload_id, multipart_calls, sizing, admissions, clients,
          completions, keys, initiation>>

\* ------------------------------------------------------------- pure helpers
\* generate_s3_key: "user_id/YYYY/MM/DD/random_hash/filename".  The record is
\* named by its id; user_id and file_name are those of the record in both
\* callers.  date is datetime.utcnow()'s day, random_hash is
\* secrets.token_hex(8).
generate_key(file_id, date, random_hash) ==
    [file_name |-> file_id, date |-> date, random_hash |-> random_hash]

NoKey == [file_name |-> 0, date |-> 0, random_hash |-> 0]
NoKeys == [upload |-> NoKey, download |-> NoKey]

\* The day the uploads run on
Today == 1

RECURSIVE SumSizes(_, _)
SumSizes(recs, S) ==
    IF S = {} THEN 0
    ELSE LET i == CHOOSE x \in S : TRUE
         IN recs[i].file_size + SumSizes(recs, S \ {i})

\* DumaStoredFileRepository.get_total_usage over an explicit table.
UsageCountingFailed(recs, dumapod_id) ==
    SumSizes(recs, {i \in DOMAIN recs : recs[i].dumapod_id = dumapod_id})

UsageOf(recs, dumapod_id) ==
    SumSizes(recs, {i \in DOMAIN recs :
                        /\ recs[i].dumapod_id = dumapod_id
                        /\ recs[i].upload_status # "failed"})

\* The sizes that stage_upload calls past their capacity check are about to
\* insert for the pod.
RECURSIVE SumAdmitted(_, _)
SumAdmitted(adm, S) ==
    IF S = {} THEN 0
    ELSE LET r == CHOOSE x \in S : TRUE
         IN adm[r].size + SumAdmitted(adm, S \ {r})

UsageWithReservations(dumapod_id) ==
    UsageOf(records, dumapod_id)
        + SumAdmitted(admissions,
                      {r \in DOMAIN admissions :
                          /\ admissions[r].pc = "checked"
                          /\ admissions[r].dumapod_id = dumapod_id})

get_total_usage(dumapod_id) == UsageOf(records, dumapod_id)

\* limit_gb * 1024 * 1024 * 1024
capacity_bytes(limit_gb) == limit_gb * KiBPerGB

\* the rejecting comparison of the capacity check
ExceedsOffByOne(usage, file_size, limit) == usage + file_size >= limit

ExceedsCapacity(usage, file_size, limit) == usage + file_size > limit

\* validate_file_type
TypeAllowed(content_type) == content_type \in allowed_file_types

\* validate_file_size: "file.size and file.size > max"
SizeTooLarge(size) == size # 0 /\ size > max_file_size_bytes

\* DumaStoredFileRepository.create_file_record: the row is inserted with the
\* status given, the column default 0 of upload_progress, no failed_reason
\* and the URLs given (stage_upload passes None for each).
RecordInsertedFull(dumapod_id, file_size, upload_status) ==
    [ dumapod_id      |-> dumapod_id,
      file_size       |-> file_size,
      upload_status   |-> upload_status,
      upload_progress |-> 100,
      failed_reason   |-> NoReason,
      url             |-> [p \in Providers |-> NoUrl] ]

NewRecord(dumapod_id, file_size, upload_status) ==
    [ dumapod_id      |-> dumapod_id,
      file_size       |-> file_size,
      upload_status   |-> upload_status,
      upload_progress |-> 0,
      failed_reason   |-> NoReason,
      url             |-> [p \in Providers |-> NoUrl] ]



\* ---------------------------------------------------------- record store
\* DumaStoredFileRepository.update_file_status_and_urls: the status is always
\* written, a URL column only when the argument is not None; failed_reason and
\* upload_progress are not touched.
update_file_status_and_urls(rec, status, urls) ==
    [rec EXCEPT !.upload_status = status,
                !.url = [p \in Providers |->
                            IF urls[p] # NoUrl THEN urls[p] ELSE rec.url[p]]]

\* DumaStoredFileRepository.update_upload_progress
update_upload_progress(rec, progress) ==
    [rec EXCEPT !.upload_progress = progress]

NoUrls == [p \in Providers |-> NoUrl]

\* ------------------------------------------------------------ stage_upload
\* The steps of FileService.stage_upload in source order.  fault names the
\* step at which the environment fails: "read" (file.read), "temp" (mkstemp /
\* write), "db" (create_file_record), or "none".
Outcome(code, detail, temp_left, record_created) ==
    [code |-> code, detail |-> detail,
     temp_left |-> temp_left, record_created |-> record_created]

StageCapacityAfterTemp(dumapod_id, content_type, size, fault) ==
    IF ~TypeAllowed(content_type) THEN Outcome(415, "type", FALSE, FALSE)
    ELSE IF SizeTooLarge(size) THEN Outcome(413, "size", FALSE, FALSE)
    ELSE IF fault = "read" THEN Outcome(400, "read", FALSE, FALSE)
    ELSE IF dumapod_id \notin DOMAIN pods THEN Outcome(404, "pod", FALSE, FALSE)
    ELSE IF fault = "temp" THEN Outcome(500, "temp", FALSE, FALSE)
    ELSE IF ExceedsCapacity(get_total_usage(dumapod_id), size,
                            capacity_bytes(pods[dumapod_id].storage_capacity_gb))
         THEN Outcome(400, "capacity", TRUE, FALSE)
    ELSE IF fault = "db" THEN Outcome(500, "db", FALSE, FALSE)
    ELSE Outcome(202, "pending", TRUE, TRUE)

StageOutcome(dumapod_id, content_type, size, fault) ==
    IF ~TypeAllowed(content_type) THEN Outcome(415, "type", FALSE, FALSE)
    ELSE IF SizeTooLarge(size) THEN Outcome(413, "size", FALSE, FALSE)
    ELSE IF fault = "read" THEN Outcome(400, "read", FALSE, FALSE)
    ELSE IF dumapod_id \notin DOMAIN pods THEN Outcome(404, "pod", FALSE, FALSE)
    ELSE IF ExceedsCapacity(get_total_usage(dumapod_id), size,
                            capacity_bytes(pods[dumapod_id].storage_capacity_gb))
         THEN Outcome(400, "capacity", FALSE, FALSE)
    \* the temp file is removed again when saving it or the insert fails
    ELSE IF fault = "temp" THEN Outcome(500, "temp", FALSE, FALSE)
    ELSE IF fault = "db" THEN Outcome(500, "db", FALSE, FALSE)
    ELSE Outcome(202, "pending", TRUE, TRUE)

StageFaults == {"none", "read", "temp", "db"}

\* The submissions offered to POST /files/upload: every pod and size with an
\* allowed type and no fault, and one size for each fault, for the unknown
\* pod and for the type that is not allowed.
StageRequests ==
    { r \in [dumapod_id : PodIds \cup {UnknownPod}, content_type : ContentTypes,
             size : FileSizes, fault : StageFaults] :
        \/ r.dumapod_id \in PodIds /\ TypeAllowed(r.content_type) /\ r.fault = "none"
        \/ r.dumapod_id = 1 /\ r.size = HalfGB /\ TypeAllowed(r.content_type)
        \/ r.dumapod_id = 1 /\ r.size = HalfGB /\ r.fault = "none"
        \/ r.dumapod_id = UnknownPod /\ r.size = HalfGB
             /\ TypeAllowed(r.content_type) /\ r.fault = "none" }

\* POST /files/upload: stage_upload, then the router queues the detached job
\* for the new record.
StageUpload(dumapod_id, content_type, size, fault) ==
    LET o  == StageOutcome(dumapod_id, content_type, size, fault)
        id == Len(records) + 1
    IN  /\ records' = IF o.record_created
                      THEN Append(records, NewRecord(dumapod_id, size, "pending"))
                      ELSE records
        /\ temp_files' = IF o.temp_left THEN temp_files \cup {id} ELSE temp_files
        /\ job' = IF o.record_created
                  THEN [job EXCEPT ![id].pc = "queued"]
                  ELSE job
        /\ UNCHANGED <<initiation, keys, completions, admissions, clients, multipart_upload_id, multipart_calls, sizing, pods, tracker, scheduled, sdk_calls>>


\* stage_upload between its awaits, for callers that run concurrently (each
\* request has its own session and its own FileService).  Steps 1-3 end with
\* the capacity check on what get_total_usage returned; nothing is written.
AdmitCheck(r, dumapod_id, content_type, size, fault) ==
    LET o == StageOutcome(dumapod_id, content_type, size, fault)
    IN  /\ admissions[r].pc = "idle"
        /\ admissions' =
              [admissions EXCEPT ![r] =
                  [pc |-> IF o.detail \in {"pending", "temp", "db"}
                          THEN "checked" ELSE "rejected",
                   dumapod_id |-> dumapod_id, size |-> size,
                   usage |-> IF dumapod_id \in DOMAIN pods
                             THEN get_total_usage(dumapod_id) ELSE 0,
                   seen |-> Len(records), detail |-> o.detail, file_id |-> 0]]
        /\ UNCHANGED <<initiation, keys, pods, records, temp_files, job, tracker, scheduled,
                       sdk_calls, multipart_upload_id, multipart_calls, sizing,
                       clients, completions>>

\* Steps 4-6: the temp file is saved and create_file_record commits the row,
\* then the router queues the detached job; a failure of either step removes
\* the temp file and answers 500.
AdmitCommit(r) ==
    LET a  == admissions[r]
        id == Len(records) + 1
    IN  /\ a.pc = "checked"
        /\ IF a.detail = "pending"
           THEN /\ records' = Append(records,
                                     NewRecord(a.dumapod_id, a.size, "pending"))
                /\ temp_files' = temp_files \cup {id}
                /\ job' = [job EXCEPT ![id].pc = "queued"]
                /\ admissions' = [admissions EXCEPT ![r].pc = "admitted",
                                                    ![r].file_id = id]
           ELSE /\ admissions' = [admissions EXCEPT ![r].pc = "failed"]
                /\ UNCHANGED <<records, temp_files, job, completions>>
        /\ UNCHANGED <<initiation, keys, pods, tracker, scheduled, sdk_calls, multipart_upload_id,
                       multipart_calls, sizing, clients, completions>>

\* ------------------------------------------------ process_background_upload
\* prepare_provider: a provider config, or None when custom credentials are
\* required and no StorageCredential row exists.
prepare_provider(mode) == ~mode.use_custom \/ mode.has_creds

IsEligible(dumapod_id, p) ==
    /\ pods[dumapod_id].mode[p].enable
    /\ prepare_provider(pods[dumapod_id].mode[p])

\* providers_to_upload, in the order S3, Wasabi, Oracle
providers_to_upload(dumapod_id) ==
    LET Keep(p) == IsEligible(dumapod_id, p)
    IN  SelectSeq(ProviderOrder, Keep)

\* StorageRepository._get_client with a credentials object builds a transient
\* client with config=Config(...) and settings.aws_region, names the module
\* never imports: the call raises NameError before any SDK request is made.
\* Without credentials the cached default client for the provider is used.
get_client_raises(mode) == mode.use_custom

\* get_bucket_name(provider) / credentials.bucket_name
BucketOf(dumapod_id, p) ==
    IF pods[dumapod_id].mode[p].use_custom THEN "custom-bucket" ELSE "default-bucket"

\* url = f"{p_value}://{bucket_name}/{storage_key}"
UrlOf(dumapod_id, p) == [scheme |-> p, bucket |-> BucketOf(dumapod_id, p)]

\* use_cb = (i == 0) for the i-th entry of providers_to_upload, counted here
\* from 1.
UseCbForAll(i) == TRUE

use_cb(i) == i = 1

\* The providers whose upload is given the tracker as its Callback
CallbackProviders(dumapod_id) ==
    LET ps == providers_to_upload(dumapod_id)
    IN  {ps[i] : i \in {k \in DOMAIN ps : use_cb(k)}}

\* StorageRepository.__init__ / _get_client: self.clients is a dict of the
\* repository instance, and FileService.__init__ makes a new StorageRepository
\* for every request and for every detached job.  Within one job the uploads
\* with default credentials put the client of their provider into that dict
\* on their first _get_client call; _get_bucket then finds it there.
CachedClients(dumapod_id) ==
    {p \in Providers :
        /\ IsEligible(dumapod_id, p)
        /\ ~get_client_raises(pods[dumapod_id].mode[p])}

IdleJob ==
    [pc |-> "none", exit |-> "none", tracked |-> "none",
     uploads |-> [p \in Providers |-> "none"]]

\* ProgressTracker.__init__; published lists the values the tracker has
\* handed to run_coroutine_threadsafe so far, clock is time.time().
IdleTracker ==
    [total_size |-> 0, uploaded |-> 0, last_percent |-> 0,
     last_update_time |-> 0, clock |-> EpochNow, published |-> << >>]

\* the except block: update_file_status_and_urls(file_id, "failed"), which may
\* itself raise (write_ok = FALSE) and then leaves the record as it was
RecordFailure(recs, f, write_ok) ==
    IF write_ok
    THEN [recs EXCEPT ![f] = update_file_status_and_urls(recs[f], "failed", NoUrls)]
    ELSE recs

\* the finally block: os.path.exists(temp_path) and os.remove(temp_path)
FinallyKeepsTemp(files, f) == files

FinallyCleanup(files, f) == files \ {f}

Finished(j, exit) == [j EXCEPT !.pc = "done", !.exit = exit]

\* The temp file is gone when the job starts: the job returns at once.
JobTempMissing(f) ==
    /\ job[f].pc = "queued"
    /\ f \notin temp_files
    /\ job' = [job EXCEPT ![f] = Finished(job[f], "temp_missing")]
    /\ temp_files' = FinallyCleanup(temp_files, f)
    /\ UNCHANGED <<initiation, keys, completions, admissions, clients, multipart_upload_id, multipart_calls, sizing, pods, records, tracker, scheduled, sdk_calls>>

\* An exception between opening the temp file and the gather (temp-file read,
\* pod or credential lookup, get_file): except block, then finally.
JobRaisesEarly(f, write_ok) ==
    /\ job[f].pc = "queued"
    /\ f \in temp_files
    /\ records' = RecordFailure(records, f, write_ok)
    /\ job' = [job EXCEPT ![f] =
                  Finished(job[f], IF write_ok THEN "failed_early" ELSE "raised")]
    /\ temp_files' = FinallyCleanup(temp_files, f)
    /\ UNCHANGED <<initiation, keys, completions, admissions, clients, multipart_upload_id, multipart_calls, sizing, pods, tracker, scheduled, sdk_calls>>

\* providers_to_upload is empty: "No providers enabled", return.
JobNoProviders(f) ==
    /\ job[f].pc = "queued"
    /\ f \in temp_files
    /\ providers_to_upload(records[f].dumapod_id) = << >>
    /\ job' = [job EXCEPT ![f] = Finished(job[f], "no_providers")]
    /\ temp_files' = FinallyCleanup(temp_files, f)
    /\ UNCHANGED <<initiation, keys, completions, admissions, clients, multipart_upload_id, multipart_calls, sizing, pods, records, tracker, scheduled, sdk_calls>>

\* The job reads the temp file, builds the tracker, resolves the providers and
\* hands one upload coroutine per provider to asyncio.gather; only the first
\* gets the progress callback.  Uploads with default credentials reach
\* client.upload_fileobj in the executor.  Random tokens matter only up to
\* equality: the token generate_key draws for the job of record f is named f.
JobStartsUploads(f) ==
    LET d  == records[f].dumapod_id
        ps == providers_to_upload(d)
    IN  /\ job[f].pc = "queued"
        /\ f \in temp_files
        /\ ps # << >>
        /\ job' = [job EXCEPT ![f] =
                      [pc |-> "uploading", exit |-> "none",
                       tracked |-> CHOOSE p \in CallbackProviders(d) : TRUE,
                       uploads |-> [p \in Providers |->
                                       IF IsEligible(d, p) THEN "running"
                                       ELSE "none"]]]
        /\ tracker' = [tracker EXCEPT ![f] =
                          [IdleTracker EXCEPT !.total_size = records[f].file_size]]
        /\ sdk_calls' = sdk_calls \cup {<<f, p>> : p \in CachedClients(d)}
        /\ clients' = [clients EXCEPT ![f] = CachedClients(d)]
        /\ keys' = [keys EXCEPT ![f].upload = generate_key(f, Today, f)]
        /\ UNCHANGED <<initiation, completions, admissions, multipart_upload_id, multipart_calls, sizing, pods, records, temp_files, scheduled>>


\* ---------------------------------------------------------- ProgressTracker
\* The whole percentages k for which the double arithmetic of
\* int((k / 100) * 100) gives k - 1: (k / 100) * 100 rounds to just below k.
\* The quotient uploaded / total_size is the same double for every pair in
\* the same ratio, and a ratio that is not a whole percentage is further
\* from the next integer than the rounding error.
FloatShort == {29, 57, 58}

\* percent = int((uploaded / total_size) * 100), in double arithmetic
Percent(uploaded, total_size) ==
    LET q == (uploaded * 100) \div total_size
    IN  IF (uploaded * 100) % total_size = 0 /\ q \in FloatShort
        THEN q - 1 ELSE q

\* should_update of ProgressTracker.__call__
ShouldUpdateWithoutFinal(percent, last_percent, now, last_update_time) ==
    percent >= last_percent + 5 /\ now - last_update_time >= 1

should_update(percent, last_percent, now, last_update_time) ==
    \/ percent = 100 /\ last_percent < 100
    \/ percent >= last_percent + 5 /\ now - last_update_time >= 1

\* ProgressTracker.__call__(bytes_amount) at wall-clock time now: the tracker
\* after the call.
TrackerCallPublishingAll(t, bytes_amount, now) ==
    LET uploaded == t.uploaded + bytes_amount
        percent  == Percent(uploaded, t.total_size)
    IN  [t EXCEPT !.uploaded = uploaded, !.clock = now,
                  !.last_percent = percent, !.last_update_time = now,
                  !.published = Append(@, percent)]

TrackerCall(t, bytes_amount, now) ==
    LET uploaded == t.uploaded + bytes_amount
        percent  == Percent(uploaded, t.total_size)
    IN  IF should_update(percent, t.last_percent, now, t.last_update_time)
        THEN [t EXCEPT !.uploaded = uploaded, !.clock = now,
                       !.last_percent = percent, !.last_update_time = now,
                       !.published = Append(@, percent)]
        ELSE [t EXCEPT !.uploaded = uploaded, !.clock = now]

\* the value handed to run_coroutine_threadsafe by that call, if any
Published(t, bytes_amount, now) ==
    LET percent == Percent(t.uploaded + bytes_amount, t.total_size)
    IN  IF should_update(percent, t.last_percent, now, t.last_update_time)
        THEN {percent} ELSE {}

\* The SDK reports the bytes of one chunk: all that is left, or half the file.
CallbackAmounts(t) ==
    {a \in {t.total_size - t.uploaded, (t.total_size + 1) \div 2} :
        a > 0 /\ t.uploaded + a <= t.total_size}

\* The bytes reported so far and bytes_amount more are part of the file.
WithinTotal(t, bytes_amount) == t.uploaded + bytes_amount <= t.total_size

\* upload_fileobj invokes the callback on its worker thread; dt is the time
\* since the previous callback, in seconds.  The tracker takes whatever
\* amount it is given.
UploadCallback(f, bytes_amount, dt) ==
    LET p == job[f].tracked
    IN  /\ job[f].pc \in {"uploading", "done"}
        /\ p \in Providers
        /\ job[f].uploads[p] = "running"
        /\ <<f, p>> \in sdk_calls
        /\ bytes_amount > 0
        /\ tracker' = [tracker EXCEPT ![f] =
                          TrackerCall(tracker[f], bytes_amount, tracker[f].clock + dt)]
        /\ scheduled' = [scheduled EXCEPT ![f] =
                            @ \cup Published(tracker[f], bytes_amount,
                                             tracker[f].clock + dt)]
        /\ UNCHANGED <<initiation, keys, completions, admissions, clients, multipart_upload_id, multipart_calls, sizing, pods, records, temp_files, job, sdk_calls>>

\* A scheduled update_upload_progress coroutine runs on the loop; its write
\* succeeds or raises (the error is logged by log_error and dropped).
ProgressUpdateRuns(f, percent, write_ok) ==
    /\ percent \in scheduled[f]
    /\ scheduled' = [scheduled EXCEPT ![f] = @ \ {percent}]
    /\ records' = IF write_ok
                  THEN [records EXCEPT ![f] = update_upload_progress(@, percent)]
                  ELSE records
    /\ UNCHANGED <<initiation, keys, completions, admissions, clients, multipart_upload_id, multipart_calls, sizing, pods, temp_files, job, tracker, sdk_calls>>

\* ------------------------------------------------- the per-provider uploads
\* _upload_and_get_url returns: storage_repo.upload_file went through.
UploadSucceeds(f, p) ==
    /\ job[f].uploads[p] = "running"
    /\ <<f, p>> \in sdk_calls
    /\ p = job[f].tracked => tracker[f].uploaded = tracker[f].total_size
    /\ job' = [job EXCEPT ![f].uploads[p] = "ok"]
    /\ UNCHANGED <<initiation, keys, completions, admissions, clients, multipart_upload_id, multipart_calls, sizing, pods, records, temp_files, tracker, scheduled, sdk_calls>>

\* _upload_and_get_url raises: _get_client or the SDK call failed.
UploadFails(f, p) ==
    /\ job[f].uploads[p] = "running"
    /\ job' = [job EXCEPT ![f].uploads[p] = "fail"]
    /\ UNCHANGED <<initiation, keys, completions, admissions, clients, multipart_upload_id, multipart_calls, sizing, pods, records, temp_files, tracker, scheduled, sdk_calls>>

\* asyncio.gather(*upload_tasks) without return_exceptions: the first
\* exception of any upload is raised in the job at once, the other uploads
\* keep running.  except block, then finally.
GatherRaises(j) == \E p \in Providers : j.uploads[p] = "fail"

JobGatherRaises(f, write_ok) ==
    /\ job[f].pc = "uploading"
    /\ GatherRaises(job[f])
    /\ records' = RecordFailure(records, f, write_ok)
    /\ job' = [job EXCEPT ![f] =
                  Finished(job[f], IF write_ok THEN "failed" ELSE "raised")]
    /\ temp_files' = FinallyCleanup(temp_files, f)
    /\ UNCHANGED <<initiation, keys, completions, admissions, clients, multipart_upload_id, multipart_calls, sizing, pods, tracker, scheduled, sdk_calls>>

\* upload_urls as built from the results of the gather
upload_urls(dumapod_id, j) ==
    [p \in Providers |->
        IF j.uploads[p] = "ok" THEN UrlOf(dumapod_id, p) ELSE NoUrl]

WriteOutcomes == {"ok", "completed_write_raises", "both_writes_raise"}

\* gather returns every result: the record is updated to "completed" with
\* the URLs; if that write raises, the except block runs.  Then finally.
JobGatherReturns(f, outcome) ==
    LET d == records[f].dumapod_id
    IN  /\ job[f].pc = "uploading"
        /\ \A p \in Providers : job[f].uploads[p] \in {"none", "ok"}
        /\ records' =
              IF outcome = "ok"
              THEN [records EXCEPT ![f] =
                       update_file_status_and_urls(@, "completed",
                                                   upload_urls(d, job[f]))]
              ELSE RecordFailure(records, f, outcome = "completed_write_raises")
        /\ job' = [job EXCEPT ![f] =
                      Finished(job[f],
                               CASE outcome = "ok" -> "completed"
                                 [] outcome = "completed_write_raises" -> "failed_write"
                                 [] OTHER -> "raised")]
        /\ temp_files' = FinallyCleanup(temp_files, f)
        /\ UNCHANGED <<initiation, keys, completions, admissions, clients, multipart_upload_id, multipart_calls, sizing, pods, tracker, scheduled, sdk_calls>>

\* The temp directory is cleaned while the job is still queued.
TempFileLost(f) ==
    /\ job[f].pc = "queued"
    /\ f \in temp_files
    /\ temp_files' = temp_files \ {f}
    /\ UNCHANGED <<initiation, keys, completions, admissions, clients, multipart_upload_id, multipart_calls, sizing, pods, records, job, tracker, scheduled, sdk_calls>>

\* ------------------------------------------- run_background_upload_wrapper
\* upload_file hands the task to BackgroundTasks with the keywords file_id,
\* file, dumapod_id and user_id, while run_background_upload_wrapper takes
\* file_id, temp_path, dumapod_id and user_id: when the task runner calls it
\* after the response has been sent, the call raises TypeError before the
\* body runs.  The record and its temp file stay as stage_upload left them.
TaskRejected(f) ==
    /\ job[f].pc = "queued"
    /\ job' = [job EXCEPT ![f].pc = "rejected", ![f].exit = "type_error"]
    /\ UNCHANGED <<initiation, keys, completions, admissions, clients, multipart_upload_id, multipart_calls, sizing, pods, records, temp_files, tracker, scheduled, sdk_calls>>

\* The exits by which an exception leaves process_background_upload
JobRaisedExits == {"raised"}

\* run_background_upload_wrapper: "except Exception" around the job rolls the
\* session back and logs, so what process_background_upload raises ends in
\* the wrapper.
WrapperCatches(exit) == exit \in JobRaisedExits

\* An exception reached the task runner that called the job's entry point.
Escaped(f) ==
    \/ job[f].exit = "type_error"
    \/ job[f].exit \in JobRaisedExits /\ ~WrapperCatches(job[f].exit)

\* ------------------------------------------------------------ download_file
\* The provider download_file asks a presigned URL from: the first URL field
\* of the record that is set, "none" if there is none (404).
DownloadProvider(rec) ==
    IF rec.url["aws_s3"] # NoUrl THEN "aws_s3"
    ELSE IF rec.url["wasabi"] # NoUrl THEN "wasabi"
    ELSE IF rec.url["oracle_object_storage"] # NoUrl THEN "oracle_object_storage"
    ELSE "none"

\* download_file: the key is generated anew by generate_key(user_id,
\* file_record.file_name) and a presigned URL is asked for it.
DownloadFile(f, date, random_hash) ==
    /\ f \in DOMAIN records
    /\ DownloadProvider(records[f]) # "none"
    /\ keys' = [keys EXCEPT ![f].download = generate_key(f, date, random_hash)]
    /\ UNCHANGED <<initiation, completions, admissions, clients, multipart_upload_id,
                   multipart_calls, sizing, pods, records, temp_files, job,
                   tracker, scheduled, sdk_calls>>

\* ------------------------------------------------ initiate_multipart_upload
\* Steps 1-4 of initiate_multipart_upload.  Step 4 calls create_file_record
\* with storage_key=..., a keyword the repository method does not take: the
\* call raises TypeError outside the try block and no row is inserted.
MultipartOutcome(dumapod_id, file_size) ==
    IF max_file_size_mb > 0 /\ file_size > max_file_size_bytes
    THEN Outcome(400, "size", FALSE, FALSE)
    ELSE IF dumapod_id \notin DOMAIN pods THEN Outcome(404, "pod", FALSE, FALSE)
    ELSE IF ExceedsCapacity(get_total_usage(dumapod_id), file_size,
                            capacity_bytes(pods[dumapod_id].storage_capacity_gb))
         THEN Outcome(400, "capacity", FALSE, FALSE)
    ELSE Outcome(500, "create_file_record", FALSE, FALSE)

InitiateMultipart(dumapod_id, file_size) ==
    LET o == MultipartOutcome(dumapod_id, file_size)
    IN  /\ o.code # 0
        /\ UNCHANGED <<initiation, keys, completions, admissions, clients, multipart_upload_id, multipart_calls, sizing, pods, records, temp_files, job, tracker, scheduled, sdk_calls>>

\* ------------------------------------- complete / abort_multipart_upload
\* dumapod.primary_storage: the provider a multipart session is opened on
primary_storage(dumapod_id) == pods[dumapod_id].primary_storage

\* sorted(parts, key=lambda x: x['part_number']); a part is modelled by its
\* part number.
RECURSIVE InsertPart(_, _)
InsertPart(part, sorted_parts) ==
    IF sorted_parts = << >> THEN << part >>
    ELSE IF part < Head(sorted_parts) THEN << part >> \o sorted_parts
    ELSE << Head(sorted_parts) >> \o InsertPart(part, Tail(sorted_parts))

RECURSIVE SortedLeft(_, _)
SortedLeft(parts, n) ==
    IF n = 0 THEN << >> ELSE InsertPart(parts[n], SortedLeft(parts, n - 1))

PartsAsGiven(parts) == parts

SortParts(parts) == SortedLeft(parts, Len(parts))

\* StorageRepository.complete_multipart_upload / abort_multipart_upload: the
\* request as it is sent to the provider.  The service passes
\* provider=provider_value and no credentials, so the credentials parameter is
\* None and _get_client and _get_bucket answer with the default client and
\* bucket of the provider, whatever the pod's use-custom flag says.
FinalizeCall(file_id, upload_id, parts) ==
    [op |-> "complete_multipart_upload", file_id |-> file_id,
     upload_id |-> upload_id, parts |-> SortParts(parts),
     provider |-> primary_storage(records[file_id].dumapod_id),
     credentials |-> "default"]

DiscardCall(file_id, upload_id) ==
    [op |-> "abort_multipart_upload", file_id |-> file_id,
     upload_id |-> upload_id, parts |-> << >>,
     provider |-> primary_storage(records[file_id].dumapod_id),
     credentials |-> "default"]

\* update_file_status_and_urls(file_id, status, failed_reason=...): the
\* repository method has no failed_reason parameter, so the call raises
\* TypeError and the row is left as it was.
StatusWithReasonWritten(rec, status, reason) ==
    [rec EXCEPT !.upload_status = status, !.failed_reason = reason]

update_status_with_reason(rec, status, reason) == rec

\* The checks of complete_multipart_upload before it reaches the provider.
CompleteChecksWithoutStatus(file_id, upload_id) ==
    IF file_id \notin DOMAIN records THEN Outcome(404, "not_found", FALSE, FALSE)
    ELSE IF multipart_upload_id[file_id] # upload_id
         THEN Outcome(400, "upload_id", FALSE, FALSE)
    ELSE Outcome(0, "proceed", FALSE, FALSE)

CompleteChecks(file_id, upload_id) ==
    IF file_id \notin DOMAIN records THEN Outcome(404, "not_found", FALSE, FALSE)
    ELSE IF records[file_id].upload_status = "completed"
         THEN Outcome(400, "completed", FALSE, FALSE)
    ELSE IF multipart_upload_id[file_id] # upload_id
         THEN Outcome(400, "upload_id", FALSE, FALSE)
    ELSE Outcome(0, "proceed", FALSE, FALSE)

\* The checks of abort_multipart_upload before it reaches the provider.
AbortChecks(file_id, upload_id) ==
    IF file_id \notin DOMAIN records THEN Outcome(404, "not_found", FALSE, FALSE)
    ELSE IF multipart_upload_id[file_id] # upload_id
         THEN Outcome(400, "upload_id", FALSE, FALSE)
    ELSE Outcome(0, "proceed", FALSE, FALSE)

\* s3_url = f"{provider_value}://{bucket}/{storage_key}", passed as s3_url
CompletedUrls(dumapod_id) ==
    [p \in Providers |->
        IF p = "aws_s3"
        THEN [scheme |-> primary_storage(dumapod_id), bucket |-> "default-bucket"]
        ELSE NoUrl]

\* The write with failed_reason raised instead of storing the status.
ReasonWriteRaises(rec, status, reason) ==
    update_status_with_reason(rec, status, reason).upload_status # status

FinalizeOutcomes == {"ok", "fails"}
DiscardOutcomes == {"ok", "client_error", "other_error"}

\* The HTTP status complete_multipart_upload answers with.
CompleteResult(file_id, upload_id, finalize) ==
    LET c == CompleteChecks(file_id, upload_id)
    IN  IF c.detail # "proceed" THEN c.code
        ELSE IF finalize = "ok" THEN 200 ELSE 500

\* POST /files/complete-multipart-upload/{file_id}: after the checks the
\* parts are sorted and sent to the provider; on success the record is
\* written "completed" with the URL, on failure the except block tries to
\* write "failed" with the reason and answers 500.
CompleteMultipart(file_id, upload_id, parts, finalize) ==
    LET c == CompleteChecks(file_id, upload_id)
    IN  IF c.detail # "proceed"
        THEN UNCHANGED vars
        ELSE /\ multipart_calls' =
                    Append(multipart_calls, FinalizeCall(file_id, upload_id, parts))
             /\ records' =
                    [records EXCEPT ![file_id] =
                        IF finalize = "ok"
                        THEN update_file_status_and_urls(
                                 @, "completed", CompletedUrls(@.dumapod_id))
                        ELSE update_status_with_reason(@, "failed", "finalize failed")]
             /\ UNCHANGED <<initiation, keys, pods, temp_files, job, tracker, scheduled, sdk_calls,
                            multipart_upload_id, sizing, admissions, clients, completions>>

\* complete_multipart_upload between its awaits, for requests that run
\* concurrently.  Step 1 reads the record and makes the three checks on what
\* it read; nothing is written or locked.
CompleteCheck(r, file_id, upload_id, parts) ==
    LET c == CompleteChecks(file_id, upload_id)
    IN  /\ completions[r].pc = "idle"
        /\ completions' =
              [completions EXCEPT ![r] =
                  [pc |-> IF c.detail = "proceed" THEN "checked" ELSE "rejected",
                   file_id |-> file_id, upload_id |-> upload_id,
                   parts |-> parts]]
        /\ UNCHANGED <<initiation, keys, pods, records, temp_files, job, tracker, scheduled,
                       sdk_calls, multipart_upload_id, multipart_calls, sizing,
                       admissions, clients>>

\* Steps 2-5 of a request that passed the checks: the pod is read, the
\* provider is asked to finalize, and the record is written.
CompleteFinish(r, finalize) ==
    LET c == completions[r]
    IN  /\ c.pc = "checked"
        /\ multipart_calls' =
              Append(multipart_calls, FinalizeCall(c.file_id, c.upload_id, c.parts))
        /\ records' =
              [records EXCEPT ![c.file_id] =
                  IF finalize = "ok"
                  THEN update_file_status_and_urls(
                           @, "completed", CompletedUrls(@.dumapod_id))
                  ELSE update_status_with_reason(@, "failed", "finalize failed")]
        /\ completions' = [completions EXCEPT ![r].pc = "done"]
        /\ UNCHANGED <<initiation, keys, pods, temp_files, job, tracker, scheduled, sdk_calls,
                       multipart_upload_id, sizing, admissions, clients>>

\* The HTTP status abort_multipart_upload answers with.
AbortResult(file_id, upload_id, discard) ==
    LET c == AbortChecks(file_id, upload_id)
    IN  IF c.detail # "proceed" THEN c.code
        ELSE IF discard = "other_error" THEN 500
        ELSE IF ReasonWriteRaises(records[file_id], "failed", "Upload aborted by user")
             THEN 500
        ELSE 200

\* POST /files/abort-multipart-upload/{file_id}: after the checks the
\* provider is asked to discard the session.  A ClientError is swallowed by
\* the storage repository; any other exception skips the status write.
AbortMultipart(file_id, upload_id, discard) ==
    LET c == AbortChecks(file_id, upload_id)
    IN  IF c.detail # "proceed"
        THEN UNCHANGED vars
        ELSE /\ multipart_calls' =
                    Append(multipart_calls, DiscardCall(file_id, upload_id))
             /\ records' =
                    IF discard = "other_error" THEN records
                    ELSE [records EXCEPT ![file_id] =
                             update_status_with_reason(
                                 @, "failed", "Upload aborted by user")]
             /\ UNCHANGED <<initiation, keys, pods, temp_files, job, tracker, scheduled, sdk_calls,
                            multipart_upload_id, sizing, admissions, clients, completions>>

\* ---------------------------------------------- DumaPodService.create_dumapod
\* _validate_storage_config: the detail of the 400 it raises, or "ok".
\* enable maps each provider to its enable flag.
ValidatePrimaryOnly(primary, secondary, enable) ==
    IF ~enable[primary] THEN "must be enabled to be used as Primary Storage"
    ELSE "ok"

validate_storage_config(primary, secondary, enable) ==
    IF ~enable[primary] THEN "must be enabled to be used as Primary Storage"
    ELSE IF secondary # NoProvider /\ secondary = primary
         THEN "Secondary storage cannot be the same as Primary storage"
    ELSE IF secondary # NoProvider /\ ~enable[secondary]
         THEN "must be enabled to be used as Secondary Storage"
    ELSE "ok"

\* The bodies of POST /dumapods: DumaPodCreate requires primary_storage; the
\* name is one no pod has, the capacity one unit.
CreatePayloads ==
    [enable : [Providers -> BOOLEAN], primary_storage : Providers,
     secondary_storage : Providers \cup {NoProvider}]

\* The row repo.create inserts: the use-custom flags take the column default
\* and no credential is stored yet.
NewPod(pod_data) ==
    [storage_capacity_gb |-> 1,
     primary_storage |-> pod_data.primary_storage,
     secondary_storage |-> pod_data.secondary_storage,
     mode |-> [p \in Providers |->
                  [enable |-> pod_data.enable[p], use_custom |-> FALSE,
                   has_creds |-> FALSE]]]

\* The HTTP status POST /dumapods answers with
CreateResult(pod_data) ==
    IF validate_storage_config(pod_data.primary_storage,
                               pod_data.secondary_storage, pod_data.enable) # "ok"
    THEN 400
    ELSE 201

CreateDumapod(pod_data) ==
    /\ Len(pods) < MaxPods
    /\ IF CreateResult(pod_data) = 201
       THEN /\ pods' = Append(pods, NewPod(pod_data))
            /\ UNCHANGED <<initiation, keys, records, temp_files, job, tracker,
                           scheduled, sdk_calls, multipart_upload_id,
                           multipart_calls, sizing, admissions, clients,
                           completions>>
       ELSE UNCHANGED vars

\* ---------------------------------------------- DumaPodService.update_dumapod
\* The fields of the request schema DumaPodUpdate
DumaPodUpdateFields ==
    {"name", "storage_capacity_gb", "enable_s3", "enable_wasabi",
     "enable_oracle_os", "primary_storage", "secondary_storage",
     "amount_in_usd", "is_active"}

\* The attribute update_dumapod reads for the provider
UseCustomField(p) ==
    CASE p = "aws_s3" -> "use_custom_s3"
      [] p = "wasabi" -> "use_custom_wasabi"
      [] OTHER        -> "use_custom_oracle"

\* What a PATCH body asks for a flag: nothing, True or False
FlagRequests == {"unset", "true", "false"}

\* A PATCH body holds the use-custom and enable flags per provider and the
\* primary and secondary provider, each of them set or left unset.
\* Bodies that ask for use-custom flags only:
UpdatePayloads ==
    {[use_custom |-> u, enable |-> [p \in Providers |-> "unset"],
      primary_storage |-> "unset", secondary_storage |-> "unset"] :
        u \in [Providers -> FlagRequests]}

\* Bodies that change the storage configuration: they disable providers and
\* set the primary or the secondary provider.
ConfigPayloads ==
    {[use_custom |-> [p \in Providers |-> "unset"], enable |-> e,
      primary_storage |-> pr, secondary_storage |-> se] :
        e \in [Providers -> {"unset", "false"}],
        pr \in Providers \cup {"unset"},
        se \in Providers \cup {"unset"}}

\* The row after repo.update(pod_id, **pod_data.model_dump(exclude_unset=True))
ApplyUpdate(pod, payload) ==
    [pod EXCEPT
        !.primary_storage =
            IF payload.primary_storage = "unset" THEN @
            ELSE payload.primary_storage,
        !.secondary_storage =
            IF payload.secondary_storage = "unset" THEN @
            ELSE payload.secondary_storage,
        !.mode =
            [p \in Providers |->
                [@[p] EXCEPT
                    !.enable = IF payload.enable[p] = "unset" THEN @
                               ELSE payload.enable[p] = "true",
                    !.use_custom = IF payload.use_custom[p] = "unset" THEN @
                                   ELSE payload.use_custom[p] = "true"]]]

\* StorageRepository.check_connectivity: with credentials _get_client raises
\* (see get_client_raises), the except clause answers False; without, the
\* answer is that of head_bucket on the default client.
check_connectivity(with_credentials, head_bucket_ok) ==
    IF with_credentials THEN FALSE ELSE head_bucket_ok

\* _validate_credential_connectivity: the detail of the 400 it raises, or "ok"
validate_credential_connectivity(dumapod_id, p) ==
    IF ~pods[dumapod_id].mode[p].has_creds THEN "No custom credentials found"
    ELSE IF ~check_connectivity(TRUE, TRUE) THEN "Connectivity check failed"
    ELSE "ok"

\* The HTTP status PATCH /dumapods/{pod_id} answers with.  update_dumapod
\* begins by reading pod_data.use_custom_s3; DumaPodUpdate declares no such
\* field, so the read raises AttributeError, which no handler turns into a
\* 4xx: the request ends as 500 before anything is validated or written.
UpdateResult(dumapod_id, payload) ==
    IF \E p \in Providers : UseCustomField(p) \notin DumaPodUpdateFields
    THEN 500
    ELSE IF \E p \in Providers :
               /\ payload.use_custom[p] = "true"
               /\ validate_credential_connectivity(dumapod_id, p) # "ok"
         THEN 400
    ELSE 200

UpdateDumapod(dumapod_id, payload) ==
    IF UpdateResult(dumapod_id, payload) = 200
    THEN /\ pods' = [pods EXCEPT ![dumapod_id] = ApplyUpdate(@, payload)]
         /\ UNCHANGED <<initiation, keys, records, temp_files, job, tracker, scheduled, sdk_calls,
                        multipart_upload_id, multipart_calls, sizing,
                        admissions, clients, completions>>
    ELSE UNCHANGED vars

\* ------------------------------------------------------ calculate_part_size
\* Byte counts of multipart uploads exceed TLC's integers, so a byte count is
\* held exactly as NLimbs digits in base 1024, least significant first.
Limb == 1024
NLimbs == 7

\* mib * 1024 * 1024 + bytes, for bytes < 1024 * 1024
Big(mib, bytes) ==
    [i \in 1..NLimbs |->
        CASE i = 1 -> bytes % Limb
          [] i = 2 -> bytes \div Limb
          [] i = 3 -> mib % Limb
          [] i = 4 -> (mib \div Limb) % Limb
          [] i = 5 -> mib \div (Limb * Limb)
          [] OTHER -> 0]

\* x < y
BigLess(x, y) ==
    \E i \in 1..NLimbs :
        /\ x[i] < y[i]
        /\ \A j \in (i + 1)..NLimbs : x[j] = y[j]

\* the carry into digit i of x * k + c
RECURSIVE CarryInto(_, _, _, _)
CarryInto(x, k, c, i) ==
    IF i = 1 THEN c
    ELSE (x[i - 1] * k + CarryInto(x, k, c, i - 1)) \div Limb

\* x * k + c for small k and c
BigMulAdd(x, k, c) ==
    [i \in 1..NLimbs |-> (x[i] * k + CarryInto(x, k, c, i)) % Limb]

\* the remainder of the digits i..NLimbs of x on division by k
RECURSIVE RemFrom(_, _, _)
RemFrom(x, k, i) ==
    IF i > NLimbs THEN 0
    ELSE (RemFrom(x, k, i + 1) * Limb + x[i]) % k

\* x // k for small k
BigDivSmall(x, k) ==
    [i \in 1..NLimbs |-> (RemFrom(x, k, i + 1) * Limb + x[i]) \div k]

\* the whole MiB in x, for x below 1024 ** 5
MiBOf(x) == x[3] + Limb * x[4] + Limb * Limb * x[5]

\* math.ceil(x / k) for small k
CeilBySmall(x, k) ==
    BigMulAdd(BigDivSmall(x, k), 1, IF RemFrom(x, k, 1) > 0 THEN 1 ELSE 0)

\* file_size // part_size for a part_size of part_mib whole MiB
FloorParts(file_size, part_mib) == MiBOf(file_size) \div part_mib

\* math.ceil(file_size / part_size) for a part_size of part_mib whole MiB
CeilParts(file_size, part_mib) ==
    MiBOf(file_size) \div part_mib
        + (IF \/ MiBOf(file_size) % part_mib # 0
              \/ file_size[1] # 0
              \/ file_size[2] # 0
           THEN 1 ELSE 0)

\* The S3 limits, in MiB, and the default of the max_parts parameter
MIN_PART_SIZE == 5
MAX_PART_SIZE == 5120
max_parts == 10000

Max2(a, b) == IF a > b THEN a ELSE b
Min2(a, b) == IF a < b THEN a ELSE b

\* the recommended part size in MiB for the file size
RecommendedMiB(file_size) ==
    IF BigLess(file_size, Big(100, 0)) THEN 10
    ELSE IF BigLess(file_size, Big(1024, 0)) THEN 100
    ELSE IF BigLess(file_size, Big(10240, 0)) THEN 500
    ELSE 1024

\* calculate_part_size(file_size): (part_size, total_parts)
calculate_part_size(file_size) ==
    LET part_mib == Max2(MIN_PART_SIZE,
                         Min2(RecommendedMiB(file_size), MAX_PART_SIZE))
        total_parts == CeilParts(file_size, part_mib)
    IN  IF total_parts > max_parts
        THEN [part_size |-> CeilBySmall(file_size, max_parts),
              total_parts |-> max_parts]
        ELSE [part_size |-> Big(part_mib, 0), total_parts |-> total_parts]

IdleSizing ==
    [pc |-> "idle", file_size |-> Big(0, 0), part_size |-> Big(0, 0),
     total_parts |-> 0]

\* One call of calculate_part_size
ComputePartSize ==
    /\ sizing.pc = "called"
    /\ sizing' = [pc |-> "returned", file_size |-> sizing.file_size,
                  part_size |-> calculate_part_size(sizing.file_size).part_size,
                  total_parts |-> calculate_part_size(sizing.file_size).total_parts]
    /\ UNCHANGED <<initiation, keys, pods, records, temp_files, job, tracker, scheduled, sdk_calls,
                   multipart_upload_id, multipart_calls, admissions, clients, completions>>

\* ------------------------- initiate_multipart_upload: part sizes, steps 3-8
\* math.ceil(a / b) for a >= 0 and b # 0: a quotient that is not positive is
\* rounded toward zero.
PyCeilDiv(a, b) ==
    IF b > 0 THEN a \div b + (IF a % b # 0 THEN 1 ELSE 0)
    ELSE -(a \div (-b))

\* Step 3: the policy if part_size is None, else the caller's part_size with
\* total_parts = math.ceil(file_size / part_size).  Byte counts are below
\* 2 ** 31 here and are turned into base-1024 digits for the policy and back.
InitiatePartSizing(file_size, given, part_size) ==
    IF ~given
    THEN LET r == calculate_part_size(Big(file_size \div (Limb * Limb),
                                          file_size % (Limb * Limb)))
             x == r.part_size
         IN  [part_size |-> x[1] + Limb * x[2] + Limb * Limb * MiBOf(x),
              total_parts |-> r.total_parts]
    ELSE [part_size |-> part_size,
          total_parts |-> PyCeilDiv(file_size, part_size)]

\* Step 8: the sizes of the response's parts, one per entry of parts_data,
\* which generate_multipart_presigned_urls builds for range(1, total_parts + 1):
\* part_size, and (file_size % part_size or part_size) for the last part.
ResponseSizes(file_size, part_size, total_parts) ==
    [p \in 1..total_parts |->
        IF p < total_parts THEN part_size
        ELSE IF file_size % part_size # 0 THEN file_size % part_size
        ELSE part_size]

\* An initiate_multipart_upload call that passed the size and capacity checks
IdleInitiation ==
    [pc |-> "idle", file_size |-> 0, given |-> FALSE, part_size |-> 0,
     total_parts |-> 0, detail |-> ""]

\* Step 3.  A part_size of 0 raises ZeroDivisionError; every other part_size
\* is taken as it is.
InitiateSizes ==
    /\ initiation.pc = "called"
    /\ initiation' =
          IF initiation.given /\ initiation.part_size = 0
          THEN [initiation EXCEPT !.pc = "raised", !.detail = "ZeroDivisionError"]
          ELSE LET r == InitiatePartSizing(initiation.file_size,
                                           initiation.given, initiation.part_size)
               IN  [initiation EXCEPT !.pc = "sized",
                                      !.part_size = r.part_size,
                                      !.total_parts = r.total_parts]
    /\ UNCHANGED <<keys, pods, records, temp_files, job, tracker, scheduled,
                   sdk_calls, multipart_upload_id, multipart_calls, sizing,
                   admissions, clients, completions>>

\* Step 4: create_file_record is called with storage_key=..., raises
\* TypeError and inserts nothing.
InitiateCreatesRecord ==
    /\ initiation.pc = "sized"
    /\ initiation' = [initiation EXCEPT !.pc = "raised",
                                        !.detail = "create_file_record"]
    /\ UNCHANGED <<keys, pods, records, temp_files, job, tracker, scheduled,
                   sdk_calls, multipart_upload_id, multipart_calls, sizing,
                   admissions, clients, completions>>

\* ------------------------------------------------------------ specification
DefaultCreds == [enable |-> TRUE, use_custom |-> FALSE, has_creds |-> FALSE]
Disabled == [enable |-> FALSE, use_custom |-> FALSE, has_creds |-> FALSE]
CustomMissing == [enable |-> TRUE, use_custom |-> TRUE, has_creds |-> FALSE]

\* Pod 1 replicates to S3 and Wasabi with the default credentials and has
\* Oracle enabled with custom credentials that were never stored; pod 2 has
\* S3 alone enabled, with custom credentials that were never stored.
TwoProviderPod ==
    [storage_capacity_gb |-> 1, primary_storage |-> "aws_s3",
     secondary_storage |-> NoProvider,
     mode |-> [p \in Providers |->
                  IF p = "oracle_object_storage" THEN CustomMissing
                  ELSE DefaultCreds]]

CustomOnlyPod ==
    [storage_capacity_gb |-> 1, primary_storage |-> "aws_s3",
     secondary_storage |-> NoProvider,
     mode |-> [p \in Providers |->
                  IF p = "aws_s3" THEN CustomMissing ELSE Disabled]]

\* The first enabled provider of a configuration, which the pod was created
\* with as its primary provider.
FirstEnabled(m) ==
    IF m["aws_s3"].enable THEN "aws_s3"
    ELSE IF m["wasabi"].enable THEN "wasabi"
    ELSE "oracle_object_storage"

InitRest ==
    /\ records = << >>
    /\ temp_files = {}
    /\ job = [f \in FileIds |-> IdleJob]
    /\ tracker = [f \in FileIds |-> IdleTracker]
    /\ scheduled = [f \in FileIds |-> {}]
    /\ sdk_calls = {}
    /\ multipart_upload_id = [f \in FileIds |-> NoSession]
    /\ multipart_calls = << >>
    /\ sizing = IdleSizing
    /\ admissions = [r \in RequestIds |-> IdleAdmission]
    /\ clients = [f \in FileIds |-> {}]
    /\ completions = [r \in RequestIds |-> IdleCompletion]
    /\ keys = [f \in FileIds |-> NoKeys]
    /\ initiation = IdleInitiation

Init ==
    /\ pods = [d \in PodIds |-> IF d = 1 THEN TwoProviderPod ELSE CustomOnlyPod]
    /\ InitRest

\* How a finished job left process_background_upload: by one of its three
\* early returns, after the "completed" write, through the except block
\* (entered before the gather, from the gather, or from the "completed"
\* write), or with the exception of the except block's own write.
JobExits ==
    {"temp_missing", "no_providers", "completed", "failed_early", "failed",
     "failed_write", "raised"}

\* The steps of the detached job, of its uploads and of the event loop, apart
\* from the progress callback.
JobSteps ==
    \/ \E f \in FileIds : TempFileLost(f)
    \/ \E f \in FileIds : TaskRejected(f)
    \/ \E f \in FileIds : JobTempMissing(f)
    \/ \E f \in FileIds, ok \in BOOLEAN : JobRaisesEarly(f, ok)
    \/ \E f \in FileIds : JobNoProviders(f)
    \/ \E f \in FileIds : JobStartsUploads(f)
    \/ \E f \in FileIds, ok \in BOOLEAN :
          \E v \in scheduled[f] : ProgressUpdateRuns(f, v, ok)
    \/ \E f \in FileIds, p \in Providers : UploadSucceeds(f, p)
    \/ \E f \in FileIds, p \in Providers : UploadFails(f, p)
    \/ \E f \in FileIds, ok \in BOOLEAN : JobGatherRaises(f, ok)
    \/ \E f \in FileIds, o \in WriteOutcomes : JobGatherReturns(f, o)

\* The whole service with two pods and up to MaxFiles records; every upload
\* reports its bytes in one callback.
Next ==
    \/ \E r \in StageRequests :
          /\ Len(records) < MaxFiles
          /\ StageUpload(r.dumapod_id, r.content_type, r.size, r.fault)
    \/ \E d \in PodIds \cup {UnknownPod}, size \in FileSizes :
          InitiateMultipart(d, size)
    \/ \E f \in FileIds :
          UploadCallback(f, tracker[f].total_size - tracker[f].uploaded, 1)
    \/ JobSteps

Spec == Init /\ [][Next]_vars

\* One upload into a pod of any provider configuration, with callbacks that
\* report the file in one or two chunks, less or more than a second apart,
\* and requests to change the pods' use-custom flags.
InitJob ==
    /\ \E m \in [Providers -> ProviderModes] :
          /\ \E p \in Providers : m[p].enable
          /\ pods = [d \in PodIds |->
                       IF d = 1 THEN [storage_capacity_gb |-> 1,
                                     primary_storage |-> FirstEnabled(m),
                                     secondary_storage |-> NoProvider,
                                     mode |-> m]
                       ELSE CustomOnlyPod]
    /\ InitRest

NextJob ==
    \/ \E r \in StageRequests :
          /\ Len(records) < MaxJobFiles
          /\ StageUpload(r.dumapod_id, r.content_type, r.size, r.fault)
    \/ \E f \in FileIds, dt \in {0, 1} :
          \E a \in CallbackAmounts(tracker[f]) : UploadCallback(f, a, dt)
    \/ \E d \in PodIds, payload \in UpdatePayloads : UpdateDumapod(d, payload)
    \/ JobSteps

\* One upload through the job, and downloads of its record on the day of the
\* upload or the next, with the random token of the job of some record or
\* with another one.
NextDownload ==
    \/ \E r \in StageRequests :
          /\ Len(records) < MaxJobFiles
          /\ StageUpload(r.dumapod_id, r.content_type, r.size, r.fault)
    \/ \E f \in FileIds :
          UploadCallback(f, tracker[f].total_size - tracker[f].uploaded, 1)
    \/ JobSteps
    \/ \E f \in FileIds, date \in {Today, Today + 1},
             random_hash \in FileIds \cup {0} :
          DownloadFile(f, date, random_hash)

SpecDownload == Init /\ [][NextDownload]_vars

SpecJob == InitJob /\ [][NextJob]_vars

\* The tracker alone: one record of total_size bytes whose job has handed the
\* tracker to the S3 upload, and callbacks that report any of the chunk sizes
\* or all that is left, in the same second as the previous one or later.
TrackerTotals == {10, 100}
ChunkSizes == {7, 29}
ChunkGaps == {0, 1}

S3OnlyPod ==
    [storage_capacity_gb |-> 1, primary_storage |-> "aws_s3",
     secondary_storage |-> NoProvider,
     mode |-> [p \in Providers |->
                  IF p = "aws_s3" THEN DefaultCreds ELSE Disabled]]

InitTracker ==
    \E total \in TrackerTotals :
        /\ pods = [d \in PodIds |-> S3OnlyPod]
        /\ records = << NewRecord(1, total, "pending") >>
        /\ temp_files = {1}
        /\ job = [f \in FileIds |->
                    IF f = 1
                    THEN [pc |-> "uploading", exit |-> "none", tracked |-> "aws_s3",
                          uploads |-> [p \in Providers |->
                                          IF p = "aws_s3" THEN "running" ELSE "none"]]
                    ELSE IdleJob]
        /\ tracker = [f \in FileIds |->
                        IF f = 1 THEN [IdleTracker EXCEPT !.total_size = total]
                        ELSE IdleTracker]
        /\ scheduled = [f \in FileIds |-> {}]
        /\ sdk_calls = {<<1, "aws_s3">>}
        /\ multipart_upload_id = [f \in FileIds |-> NoSession]
        /\ multipart_calls = << >>
        /\ sizing = IdleSizing
        /\ admissions = [r \in RequestIds |-> IdleAdmission]
        /\ clients = [f \in FileIds |-> IF f = 1 THEN {"aws_s3"} ELSE {}]
        /\ completions = [r \in RequestIds |-> IdleCompletion]
    /\ keys = [f \in FileIds |-> NoKeys]
    /\ initiation = IdleInitiation

NextTracker ==
    \E a \in ChunkSizes \cup {tracker[1].total_size - tracker[1].uploaded},
       dt \in ChunkGaps :
        /\ WithinTotal(tracker[1], a)
        /\ UploadCallback(1, a, dt)

SpecTracker == InitTracker /\ [][NextTracker]_vars

\* The tracker and the progress column when the SDK reports a chunk again
\* after sending it again: the amounts reported may add up to more than the
\* file, up to MaxResent times its size, and the scheduled writes run on the
\* loop.
MaxResent == 2
ResentChunks == {29}

NextResend ==
    \/ \E a \in ResentChunks \cup {tracker[1].total_size - tracker[1].uploaded},
          dt \in ChunkGaps :
           /\ tracker[1].uploaded + a <= MaxResent * tracker[1].total_size
           /\ UploadCallback(1, a, dt)
    \/ \E ok \in BOOLEAN :
           \E v \in scheduled[1] : ProgressUpdateRuns(1, v, ok)

SpecResend == InitTracker /\ [][NextResend]_vars

\* The multipart protocol on two records whose sessions are open: each record
\* is in the status and carries the session id that initiate-multipart is
\* specified to leave (the code's own initiate never gets that far, see
\* MultipartOutcome).
MaxParts == 3
MaxCalls == 3
UploadIds == {"upload-1", "upload-2"}
SessionOf(file_id) == IF file_id = 1 THEN "upload-1" ELSE "upload-2"

\* The parts lists a client may send: the part numbers 1..MaxParts, some or
\* all of them, in any order.
PartLists ==
    {ps \in UNION {[1..n -> 1..MaxParts] : n \in 1..MaxParts} :
        \A i, j \in DOMAIN ps : i # j => ps[i] # ps[j]}

WasabiCustomPod ==
    [storage_capacity_gb |-> 1, primary_storage |-> "wasabi",
     secondary_storage |-> NoProvider,
     mode |-> [p \in Providers |->
                  IF p = "wasabi"
                  THEN [enable |-> TRUE, use_custom |-> TRUE, has_creds |-> TRUE]
                  ELSE Disabled]]

\* Record 1 belongs to a pod on S3 with the default credentials, the other
\* records to a pod whose primary provider is Wasabi with custom credentials.
InitMultipart ==
    /\ pods = [d \in PodIds |-> IF d = 1 THEN S3OnlyPod ELSE WasabiCustomPod]
    /\ records = [f \in FileIds |->
                    NewRecord(IF f = 1 THEN 1 ELSE 2, HalfGB, "pending_multipart")]
    /\ temp_files = {}
    /\ job = [f \in FileIds |-> IdleJob]
    /\ tracker = [f \in FileIds |-> IdleTracker]
    /\ scheduled = [f \in FileIds |-> {}]
    /\ sdk_calls = {}
    /\ multipart_upload_id = [f \in FileIds |-> SessionOf(f)]
    /\ multipart_calls = << >>
    /\ sizing = IdleSizing
    /\ admissions = [r \in RequestIds |-> IdleAdmission]
    /\ clients = [f \in FileIds |-> {}]
    /\ completions = [r \in RequestIds |-> IdleCompletion]
    /\ keys = [f \in FileIds |-> NoKeys]
    /\ initiation = IdleInitiation

UnknownFile == MaxFiles + 1

NextMultipart ==
    /\ Len(multipart_calls) < MaxCalls
    /\ \/ \E f \in FileIds \cup {UnknownFile}, u \in UploadIds,
             ps \in PartLists, o \in FinalizeOutcomes :
              CompleteMultipart(f, u, ps, o)
       \/ \E f \in FileIds \cup {UnknownFile}, u \in UploadIds,
             o \in DiscardOutcomes :
              AbortMultipart(f, u, o)

SpecMultipart == InitMultipart /\ [][NextMultipart]_vars

\* Concurrent admissions: up to MaxRequests stage_upload calls whose steps
\* interleave at their awaits.
InitAdmit == Init

NextAdmit ==
    \/ \E r \in RequestIds, q \in StageRequests :
          AdmitCheck(r, q.dumapod_id, q.content_type, q.size, q.fault)
    \/ \E r \in RequestIds :
          /\ Len(records) < MaxFiles
          /\ AdmitCommit(r)

SpecAdmit == InitAdmit /\ [][NextAdmit]_vars

\* The parts list sent by the requests of the specifications below
ServiceParts == {<<2, 1>>}

\* Concurrent complete-multipart requests on the two open sessions: the steps
\* of up to MaxRequests requests interleave at their awaits.
NextComplete ==
    \/ \E r \in RequestIds, f \in FileIds \cup {UnknownFile}, u \in UploadIds,
          ps \in ServiceParts :
           CompleteCheck(r, f, u, ps)
    \/ \E r \in RequestIds, o \in FinalizeOutcomes : CompleteFinish(r, o)

SpecComplete == InitMultipart /\ [][NextComplete]_vars

\* The whole service around one pod: record 1 is a multipart record of half
\* the pod whose session is open (as initiate-multipart is specified to leave
\* it), further records come from stage-upload, one admission at a time, and
\* are replicated by their jobs; complete- and abort-multipart requests name
\* any record and session.  The pods are never updated.
InitService ==
    /\ pods = [d \in PodIds |-> IF d = 1 THEN TwoProviderPod ELSE CustomOnlyPod]
    /\ records = << NewRecord(1, HalfGB, "pending_multipart") >>
    /\ temp_files = {}
    /\ job = [f \in FileIds |-> IdleJob]
    /\ tracker = [f \in FileIds |-> IdleTracker]
    /\ scheduled = [f \in FileIds |-> {}]
    /\ sdk_calls = {}
    /\ multipart_upload_id =
          [f \in FileIds |-> IF f = 1 THEN SessionOf(1) ELSE NoSession]
    /\ multipart_calls = << >>
    /\ sizing = IdleSizing
    /\ admissions = [r \in RequestIds |-> IdleAdmission]
    /\ clients = [f \in FileIds |-> {}]
    /\ completions = [r \in RequestIds |-> IdleCompletion]
    /\ keys = [f \in FileIds |-> NoKeys]
    /\ initiation = IdleInitiation

NextService ==
    \/ \E r \in StageRequests :
          /\ Len(records) < MaxFiles
          /\ StageUpload(r.dumapod_id, r.content_type, r.size, r.fault)
    \/ \E d \in PodIds \cup {UnknownPod}, size \in FileSizes :
          InitiateMultipart(d, size)
    \/ \E f \in FileIds :
          UploadCallback(f, tracker[f].total_size - tracker[f].uploaded, 1)
    \/ JobSteps
    \/ /\ Len(multipart_calls) < MaxCalls
       /\ \/ \E f \in FileIds \cup {UnknownFile}, u \in UploadIds,
                ps \in ServiceParts, o \in FinalizeOutcomes :
                 CompleteMultipart(f, u, ps, o)
          \/ \E f \in FileIds \cup {UnknownFile}, u \in UploadIds,
                o \in DiscardOutcomes :
                 AbortMultipart(f, u, o)

SpecService == InitService /\ [][NextService]_vars

\* The sizing policy alone, on file sizes around every threshold of the
\* policy: whole MiB counts, and those less or more a few bytes.
SizingMiB ==
    {0, 5, 10, 50, 100, 500, 1024, 5000, 10240, 2000000,
     10000 * 1024, 15000 * 1024, 50000 * 1024, 60000 * 1024}
SizingBytes == {0, 1, 4999, 10000, 1048575}

SizingInputs ==
    {Big(m, b) : m \in SizingMiB, b \in SizingBytes} \ {Big(0, 0)}

InitSizing ==
    /\ pods = [d \in PodIds |-> S3OnlyPod]
    /\ records = << >>
    /\ temp_files = {}
    /\ job = [f \in FileIds |-> IdleJob]
    /\ tracker = [f \in FileIds |-> IdleTracker]
    /\ scheduled = [f \in FileIds |-> {}]
    /\ sdk_calls = {}
    /\ multipart_upload_id = [f \in FileIds |-> NoSession]
    /\ multipart_calls = << >>
    /\ admissions = [r \in RequestIds |-> IdleAdmission]
    /\ clients = [f \in FileIds |-> {}]
    /\ completions = [r \in RequestIds |-> IdleCompletion]
    /\ keys = [f \in FileIds |-> NoKeys]
    /\ initiation = IdleInitiation
    /\ \E size \in SizingInputs :
          sizing = [IdleSizing EXCEPT !.pc = "called", !.file_size = size]

NextSizing == ComputePartSize

SpecSizing == InitSizing /\ [][NextSizing]_vars

\* The pods table from empty, under create and update requests.
InitPods ==
    /\ pods = << >>
    /\ InitRest

NextPods ==
    \/ \E pod_data \in CreatePayloads : CreateDumapod(pod_data)
    \/ \E d \in DOMAIN pods, payload \in ConfigPayloads :
          UpdateDumapod(d, payload)

SpecPods == InitPods /\ [][NextPods]_vars

\* Steps 3 and 4 of initiate-multipart on requests without a part_size, for
\* files around the first tiers of the policy, and on requests with one:
\* a few bytes for files of a few bytes, and around 5 MiB for larger files.
MiB == Limb * Limb
SmallFiles == {1, 3, 10, 12}
LargeFiles == {5 * MiB, 10 * MiB, 10 * MiB + 1, 95 * MiB, 100 * MiB + 5}

InitiateRequests ==
    {[file_size |-> s, given |-> FALSE, part_size |-> 0] :
        s \in SmallFiles \cup LargeFiles}
    \cup {[file_size |-> s, given |-> TRUE, part_size |-> ps] :
            s \in SmallFiles, ps \in {-7, -1, 0, 1, 3, 5, 20}}
    \cup {[file_size |-> s, given |-> TRUE, part_size |-> ps] :
            s \in LargeFiles,
            ps \in {-5 * MiB, 5 * MiB - 1, 5 * MiB, 64 * MiB}}

InitInitiate ==
    /\ pods = [d \in PodIds |-> S3OnlyPod]
    /\ records = << >>
    /\ temp_files = {}
    /\ job = [f \in FileIds |-> IdleJob]
    /\ tracker = [f \in FileIds |-> IdleTracker]
    /\ scheduled = [f \in FileIds |-> {}]
    /\ sdk_calls = {}
    /\ multipart_upload_id = [f \in FileIds |-> NoSession]
    /\ multipart_calls = << >>
    /\ sizing = IdleSizing
    /\ admissions = [r \in RequestIds |-> IdleAdmission]
    /\ clients = [f \in FileIds |-> {}]
    /\ completions = [r \in RequestIds |-> IdleCompletion]
    /\ keys = [f \in FileIds |-> NoKeys]
    /\ \E r \in InitiateRequests :
          initiation = [IdleInitiation EXCEPT !.pc = "called",
                                              !.file_size = r.file_size,
                                              !.given = r.given,
                                              !.part_size = r.part_size]

NextInitiate == InitiateSizes \/ InitiateCreatesRecord

SpecInitiate == InitInitiate /\ [][NextInitiate]_vars


\* ================================================================== claims
Statuses ==
    {"pending", "uploading", "pending_multipart", "processing", "completed",
     "failed"}

\* The sum of the sizes of the first n records that belong to the pod and
\* whose status is one of the given statuses.
RECURSIVE SizeIn(_, _, _, _)
SizeIn(recs, n, dumapod_id, sts) ==
    IF n = 0 THEN 0
    ELSE SizeIn(recs, n - 1, dumapod_id, sts)
         + (IF recs[n].dumapod_id = dumapod_id /\ recs[n].upload_status \in sts
            THEN recs[n].file_size ELSE 0)

NonFailedUsage(dumapod_id) ==
    SizeIn(records, Len(records), dumapod_id, Statuses \ {"failed"})

PodCapacity(dumapod_id) == pods[dumapod_id].storage_capacity_gb * KiBPerGB

\* C1: in every reachable state, for every pod and every incoming size that
\* reaches the capacity check (allowed type, within the file-size limit, no
\* fault before the check), stage-upload and initiate-multipart reject the
\* request for capacity exactly when U + incoming > C, and stage-upload creates
\* the record exactly when U + incoming <= C, U being the size of the pod's
\* records that are not failed.
C1_CapacityCheck ==
    \A d \in PodIds, size \in FileSizes :
        ~SizeTooLarge(size) =>
            LET fits == NonFailedUsage(d) + size <= PodCapacity(d)
            IN  /\ StageOutcome(d, "video/mp4", size, "none").record_created <=> fits
                /\ \A fault \in {"none", "temp", "db"} :
                      StageOutcome(d, "video/mp4", size, fault).detail = "capacity"
                          <=> ~fits
                /\ MultipartOutcome(d, size).detail = "capacity" <=> ~fits

\* C1 witness: a pod filled exactly to its capacity by two admitted uploads,
\* the second admitted at U + incoming = C.
C1_Witness ==
    \E d \in PodIds :
        /\ Len(records) = 2
        /\ \A i \in 1..2 : records[i].dumapod_id = d /\ records[i].file_size = HalfGB
        /\ NonFailedUsage(d) = PodCapacity(d)

\* C2: a stage-upload that is rejected for its MIME type or for capacity
\* changes nothing: no record, no temp file, no queued job, no SDK call.
C2_RejectionLeavesNoTrace ==
    [][ \A r \in StageRequests :
          ( /\ StageUpload(r.dumapod_id, r.content_type, r.size, r.fault)
            /\ StageOutcome(r.dumapod_id, r.content_type, r.size, r.fault).detail
                  \in {"type", "capacity"} )
          => UNCHANGED <<records, temp_files, job, sdk_calls>> ]_vars

\* C2 witness: a state with a record, its temp file and an SDK call in place
\* in which an upload into the same pod is rejected for capacity.
C2_Witness ==
    /\ \E f \in DOMAIN records :
          /\ f \in temp_files
          /\ <<f, "aws_s3">> \in sdk_calls
          /\ StageOutcome(records[f].dumapod_id, "video/mp4", HalfGB + 1, "none").detail
                = "capacity"
    /\ StageOutcome(1, "text/html", HalfGB, "none").detail = "type"

\* C3: in every reachable state the usage of a pod is the size of its records
\* in the statuses pending, uploading, pending_multipart, processing and
\* completed, a further record of any status but failed adds its size and a
\* failed one adds nothing; and in every step the usage changes by the sizes of
\* the records created minus the sizes of the records that became failed.
C3_UsageState ==
    \A d \in PodIds :
        /\ get_total_usage(d) = NonFailedUsage(d)
        /\ \A st \in Statuses, size \in {HalfGB, HalfGB + 1} :
              UsageOf(records \o << NewRecord(d, size, st) >>, d)
                 = get_total_usage(d) + (IF st = "failed" THEN 0 ELSE size)

BecameFailed(dumapod_id) ==
    {i \in DOMAIN records :
        /\ records[i].dumapod_id = dumapod_id
        /\ records[i].upload_status # "failed"
        /\ records'[i].upload_status = "failed"}

Created(dumapod_id) ==
    {i \in DOMAIN records' :
        /\ i \notin DOMAIN records
        /\ records'[i].dumapod_id = dumapod_id
        /\ records'[i].upload_status # "failed"}

C3_UsageStep ==
    \A d \in PodIds :
        get_total_usage(d)' =
            get_total_usage(d) + SumSizes(records', Created(d))
                               - SumSizes(records, BecameFailed(d))

C3_UsageExcludesFailed == [] C3_UsageState /\ [][C3_UsageStep]_vars

\* C3 witness: a pod holding a failed record and a completed record, both
\* non-empty, whose usage is the size of the completed one alone.
C3_Witness ==
    \E i, j \in DOMAIN records :
        /\ records[i].dumapod_id = records[j].dumapod_id
        /\ records[i].upload_status = "failed" /\ records[i].file_size > 0
        /\ records[j].upload_status = "completed" /\ records[j].file_size > 0
        /\ get_total_usage(records[i].dumapod_id) = records[j].file_size


Terminal == {"completed", "failed"}

JobDone(f) == job[f].pc = "done"

\* the job attempted at least one upload, and all its uploads have returned
UploadsOver(f) ==
    /\ \E p \in Providers : job[f].uploads[p] # "none"
    /\ \A p \in Providers : job[f].uploads[p] # "running"

\* C4: whenever a background job has ended without a failed persistence
\* write, its record is in a terminal status (completed or failed).
C4_JobEndsTerminal ==
    \A f \in DOMAIN records :
        (JobDone(f) /\ job[f].exit # "raised")
            => records[f].upload_status \in Terminal

\* C5: once a job that uploaded to N >= 1 providers has ended (its writes
\* accepted) and all its uploads have returned, the record is completed iff
\* at least one upload succeeded and failed iff all failed; a completed
\* record has no failed_reason.
C5_CompletedIffAnySucceeded ==
    \A f \in DOMAIN records :
        (JobDone(f) /\ job[f].exit \in {"completed", "failed"} /\ UploadsOver(f))
            => /\ records[f].upload_status = "completed"
                  <=> \E p \in Providers : job[f].uploads[p] = "ok"
               /\ records[f].upload_status = "failed"
                  <=> \A p \in Providers : job[f].uploads[p] \in {"none", "fail"}
               /\ records[f].upload_status = "completed"
                  => records[f].failed_reason = NoReason

\* C6: once a job has ended (its writes accepted) and all its uploads have
\* returned, a provider's URL is set on the record iff the upload to that
\* provider succeeded.
C6_UrlIffSucceeded ==
    \A f \in DOMAIN records :
        (JobDone(f) /\ job[f].exit \in {"completed", "failed"} /\ UploadsOver(f))
            => \A p \in Providers :
                  records[f].url[p] # NoUrl <=> job[f].uploads[p] = "ok"

\* C7: in every reachable state a completed record has progress 100 (stated
\* here for the records of non-empty files, for which the tracker publishes
\* 100 before the upload returns).
C7_CompletedHasFullProgress ==
    \A f \in DOMAIN records :
        (records[f].upload_status = "completed" /\ records[f].file_size > 0)
            => records[f].upload_progress = 100

\* C8: a job that found no eligible provider leaves its record failed, with
\* a reason, and has made no SDK call.
C8_NoProviderMeansFailed ==
    \A f \in DOMAIN records :
        (JobDone(f) /\ job[f].exit = "no_providers")
            => /\ records[f].upload_status = "failed"
               /\ records[f].failed_reason # NoReason
               /\ \A p \in Providers : <<f, p>> \notin sdk_calls

\* C9: the terminal status is written and the temp file removed (the job
\* has ended) only after every upload of the job has returned.
C9_EndsAfterAllUploads ==
    \A f \in DOMAIN records :
        JobDone(f) => \A p \in Providers : job[f].uploads[p] # "running"

\* C10: the temp file of a job that has ended, by whatever exit, no longer
\* exists, and every temp file on disk belongs to a record that was created
\* (a stage-upload whose insert failed left none behind).
C10_TempFileRemoved ==
    /\ \A f \in FileIds : JobDone(f) => f \notin temp_files
    /\ \A t \in temp_files : t \in DOMAIN records

\* C10 witness: a job whose except-block write raised has ended and its temp
\* file is gone.
C10_Witness ==
    \E f \in DOMAIN records :
        /\ JobDone(f) /\ job[f].exit = "raised"
        /\ \E p \in Providers : job[f].uploads[p] = "fail"
        /\ f \notin temp_files

\* the exits of a job that went through its except block
ExceptExits == {"failed_early", "failed", "failed_write", "raised"}

\* C11: a job that ended through its except block, with the write of the
\* except block accepted, left its record failed with a reason taken from the
\* exception.
C11_ExceptionRecordsReason ==
    \A f \in DOMAIN records :
        (JobDone(f) /\ job[f].exit \in ExceptExits /\ job[f].exit # "raised")
            => /\ records[f].upload_status = "failed"
               /\ records[f].failed_reason # NoReason

\* C12: no exception ever reaches the task runner that called the entry
\* point of the detached job.
C12_NothingEscapesEntryPoint ==
    \A f \in FileIds : ~Escaped(f)

NonDecreasing(seq) == \A i \in 1..(Len(seq) - 1) : seq[i] <= seq[i + 1]

\* C13: the values the tracker has published so far are non-decreasing, and
\* once callbacks with positive amounts have reported total_size bytes the
\* last value published is 100.
C13_PublishedNonDecreasingTo100 ==
    \A f \in FileIds :
        LET t == tracker[f]
        IN  /\ NonDecreasing(t.published)
            /\ (t.total_size > 0 /\ t.uploaded = t.total_size)
                  => /\ t.published # << >>
                     /\ t.published[Len(t.published)] = 100

\* C13 witness: all bytes reported, several values published before the
\* final 100, among them the 28 that the double arithmetic gives for 29/100.
C13_Witness ==
    LET t == tracker[1]
    IN  /\ t.total_size = 100 /\ t.uploaded = t.total_size
        /\ Len(t.published) >= 4
        /\ \E i \in 1..Len(t.published) : t.published[i] = 28
        /\ t.published[Len(t.published)] = 100

Ascending(seq) == \A i \in 1..(Len(seq) - 1) : seq[i] < seq[i + 1]

SameParts(a, b) ==
    /\ Len(a) = Len(b)
    /\ \A k \in 1..MaxParts :
          Cardinality({i \in DOMAIN a : a[i] = k})
             = Cardinality({i \in DOMAIN b : b[i] = k})

AbortsSent(f) ==
    {i \in DOMAIN multipart_calls :
        /\ multipart_calls[i].op = "abort_multipart_upload"
        /\ multipart_calls[i].file_id = f
        /\ multipart_calls[i].upload_id = multipart_upload_id[f]}

FinalizesSent(f) ==
    {i \in DOMAIN multipart_calls :
        /\ multipart_calls[i].op = "complete_multipart_upload"
        /\ multipart_calls[i].file_id = f}

BigLeq(x, y) == ~BigLess(y, x)

PartSizeWithinLimits(part_size) ==
    /\ BigLeq(Big(MIN_PART_SIZE, 0), part_size)
    /\ BigLeq(part_size, Big(MAX_PART_SIZE, 0))

\* C20: whenever the sizing policy has returned a part_size within
\* [5 MiB, 5 GiB] for a file of at least one byte, total_parts is at most
\* 10000 and is ceil(total_size / part_size): total_parts parts hold the file,
\* total_parts - 1 parts do not.
C20_TotalPartsIsCeil ==
    (sizing.pc = "returned" /\ PartSizeWithinLimits(sizing.part_size))
        => /\ sizing.total_parts >= 1
           /\ sizing.total_parts <= 10000
           /\ BigLeq(sizing.file_size,
                     BigMulAdd(sizing.part_size, sizing.total_parts, 0))
           /\ BigLess(BigMulAdd(sizing.part_size, sizing.total_parts - 1, 0),
                      sizing.file_size)

\* C20 witness: a file one byte over 10000 GiB, for which the part size was
\* recomputed to one byte over 1 GiB and total_parts is 10000.
C20_Witness ==
    /\ sizing.pc = "returned"
    /\ sizing.file_size = Big(10000 * 1024, 1)
    /\ sizing.part_size = Big(1024, 1)
    /\ sizing.total_parts = 10000
    /\ PartSizeWithinLimits(sizing.part_size)

\* The requests whose capacity check ran: it admitted them or rejected them
\* for capacity.
ReachedCapacityCheck(a) ==
    a.pc # "idle" /\ a.detail \in {"pending", "temp", "db", "capacity"}

\* The pod's non-failed usage in the rows committed when the request read it.
CommittedWhenRead(a) ==
    SizeIn(records, a.seen, a.dumapod_id, Statuses \ {"failed"})

\* C21: the capacity check of an admission counts the committed rows only: a
\* request passes it exactly when the non-failed usage committed at the time
\* of its read plus its own size is within the capacity, whatever other
\* requests have passed their check and not yet committed; so two requests
\* that each fit alone are both admitted and may jointly exceed the capacity.
C21_CheckSeesCommittedOnly ==
    \A r \in RequestIds :
        LET a == admissions[r]
        IN  ReachedCapacityCheck(a) =>
              /\ a.usage = CommittedWhenRead(a)
              /\ (a.detail # "capacity")
                    <=> (CommittedWhenRead(a) + a.size <= PodCapacity(a.dumapod_id))

\* C21 witness: two requests for one pod that each read the usage before the
\* other's row was committed and each fit alone were both admitted, and the
\* pod's non-failed usage exceeds its capacity.
C21_Witness ==
    \E d \in PodIds, r1, r2 \in RequestIds :
        /\ r1 # r2
        /\ \A r \in {r1, r2} :
              /\ admissions[r].pc = "admitted"
              /\ admissions[r].dumapod_id = d
              /\ admissions[r].usage + admissions[r].size <= PodCapacity(d)
        /\ admissions[r1].seen < admissions[r2].file_id
        /\ admissions[r2].seen < admissions[r1].file_id
        /\ NonFailedUsage(d) > PodCapacity(d)

\* C22: stage-upload rejects a submission of size zero: no record has file
\* size 0.
C22_NoEmptyRecord ==
    \A i \in DOMAIN records : records[i].file_size # 0

\* C23: a stage-upload that creates a record leaves it in a pre-upload status
\* (uploading or pending) with progress 0 and every provider URL unset, and
\* when it returns no provider upload of that record has started: its job is
\* only queued and no SDK call was made for it.
C23_RecordStartsFresh ==
    [][ \A r \in StageRequests :
          ( /\ StageUpload(r.dumapod_id, r.content_type, r.size, r.fault)
            /\ Len(records') = Len(records) + 1 )
          => LET id == Len(records')
             IN  /\ records'[id].upload_status \in {"uploading", "pending"}
                 /\ records'[id].upload_progress = 0
                 /\ \A p \in Providers : records'[id].url[p] = NoUrl
                 /\ records'[id].dumapod_id = r.dumapod_id
                 /\ records'[id].file_size = r.size
                 /\ job'[id].pc = "queued"
                 /\ \A p \in Providers :
                       /\ job'[id].uploads[p] = "none"
                       /\ <<id, p>> \notin sdk_calls' ]_vars

\* C23 witness: stage-upload has returned for a record that is pending with
\* progress 0 and no URL, and whose job has not started.
C23_Witness ==
    \E id \in DOMAIN records :
        /\ records[id].upload_status = "pending"
        /\ records[id].upload_progress = 0
        /\ \A p \in Providers : records[id].url[p] = NoUrl
        /\ job[id].pc = "queued"
        /\ id \in temp_files

\* C24: the persisted progress of every record is an integer in 0..100 in
\* every reachable state, also when the amounts the SDK reports add up to
\* more than total_size.
C24_ProgressInRange ==
    \A i \in DOMAIN records :
        records[i].upload_progress >= 0 /\ records[i].upload_progress <= 100

\* The jobs whose StorageRepository built a client for the provider.
BuiltClientFor(p) == {f \in FileIds : p \in clients[f]}

\* C25: with default credentials the client of a provider is constructed at
\* most once in the process, whatever number of requests and jobs use it.
C25_ClientBuiltOnce ==
    \A p \in Providers : Cardinality(BuiltClientFor(p)) <= 1

\* The credential of every provider the payload sets the flag for exists and
\* its connectivity probe answers true.
CredentialsWork(dumapod_id, payload) ==
    \A p \in Providers :
        payload.use_custom[p] = "true" =>
            /\ pods[dumapod_id].mode[p].has_creds
            /\ check_connectivity(TRUE, TRUE)

\* C26: in every reachable state, an update that sets a use-custom flag
\* succeeds only if the credential of that provider exists and its probe
\* answers true; otherwise it is rejected with 400 (and, being rejected,
\* writes nothing).
C26_CustomFlagNeedsWorkingCredential ==
    \A d \in PodIds, payload \in UpdatePayloads :
        (\E p \in Providers : payload.use_custom[p] = "true")
          => /\ UpdateResult(d, payload) = 200 => CredentialsWork(d, payload)
             /\ ~CredentialsWork(d, payload) => UpdateResult(d, payload) = 400

\* The last value of a sequence of published values, 0 before the first.
LastPublished(published) ==
    IF published = << >> THEN 0 ELSE published[Len(published)]

Contains(published, v) == \E i \in DOMAIN published : published[i] = v

\* C27: a callback publishes a value p only if p = 100 and 100 was not
\* published before, or p is at least 5 above the last published value and at
\* least 1 second has passed since the last publish; hence consecutive
\* published values below 100 differ by at least 5 and are at least 1 second
\* apart.
C27_PublishRule ==
    [][ \A f \in FileIds :
          tracker'[f].published # tracker[f].published
          => LET before == tracker[f].published
                 p      == LastPublished(tracker'[f].published)
                 now    == tracker'[f].clock
             IN  /\ tracker'[f].published = Append(before, p)
                 /\ \/ p = 100 /\ ~Contains(before, 100)
                    \/ /\ p >= LastPublished(before) + 5
                       /\ now - tracker[f].last_update_time >= 1
                 /\ tracker'[f].last_update_time = now
                 /\ p < 100 => /\ p - LastPublished(before) >= 5
                               /\ now - tracker[f].last_update_time >= 1 ]_vars

\* C27 witness: a tracker that published two values below 100 and then 100,
\* after a callback that published nothing.
C27_Witness ==
    \E f \in FileIds :
        LET t == tracker[f]
        IN  /\ Len(t.published) >= 3
            /\ t.published[1] < 100 /\ t.published[2] < 100
            /\ t.published[Len(t.published)] = 100
            /\ t.uploaded = t.total_size

\* The eligible providers of the pod that come before p in the fixed order.
EligibleBefore(dumapod_id, p) ==
    {q \in Providers :
        /\ IsEligible(dumapod_id, q)
        /\ \E i, j \in 1..3 : i < j /\ ProviderOrder[i] = q /\ ProviderOrder[j] = p}

\* C28: when a job with at least one eligible provider starts its uploads,
\* exactly one upload is given the progress callback, that of the first
\* eligible provider in the order S3, Wasabi, Oracle; and every later change
\* of the record's tracker comes from that one upload while it runs.
C28_OneTrackedUpload ==
    [][ \A f \in FileIds :
          /\ (job[f].pc = "queued" /\ job'[f].pc = "uploading")
                => LET d == records[f].dumapod_id
                   IN  /\ Cardinality(CallbackProviders(d)) = 1
                       /\ job'[f].tracked \in CallbackProviders(d)
                       /\ IsEligible(d, job'[f].tracked)
                       /\ EligibleBefore(d, job'[f].tracked) = {}
                       /\ job'[f].uploads[job'[f].tracked] = "running"
          /\ (job[f].pc # "queued" /\ tracker'[f] # tracker[f])
                => /\ job[f].tracked \in Providers
                   /\ job[f].uploads[job[f].tracked] = "running"
                   /\ <<f, job[f].tracked>> \in sdk_calls ]_vars

\* C28 witness: a job with two uploads running, of which the S3 upload has
\* reported bytes to the tracker and the Wasabi upload is not tracked.
C28_Witness ==
    \E f \in DOMAIN records :
        /\ job[f].uploads["aws_s3"] = "running"
        /\ job[f].uploads["wasabi"] = "running"
        /\ job[f].tracked = "aws_s3"
        /\ tracker[f].uploaded > 0

\* The enabled providers of the pod that require custom credentials of which
\* there is no row.
SkippedProviders(dumapod_id) ==
    {p \in Providers :
        /\ pods[dumapod_id].mode[p].enable
        /\ pods[dumapod_id].mode[p].use_custom
        /\ ~pods[dumapod_id].mode[p].has_creds}

\* C29: in a job of a pod with a provider that requires absent custom
\* credentials, that provider is skipped (no upload is started for it) without
\* failing the job: once the job has ended with its status writes gone
\* through, the record is 'completed' if one of the remaining uploads
\* succeeded.
C29_SkippedProviderNotFatal ==
    \A f \in DOMAIN records :
        LET d == records[f].dumapod_id
        IN  (SkippedProviders(d) # {} /\ job[f].pc \in {"uploading", "done"})
              => /\ \A p \in SkippedProviders(d) :
                       job[f].uploads[p] = "none" /\ <<f, p>> \notin sdk_calls
                 /\ ( /\ job[f].pc = "done"
                      /\ job[f].exit \in {"completed", "failed"}
                      /\ \E p \in Providers : job[f].uploads[p] = "ok" )
                       => records[f].upload_status = "completed"

\* C30: an initiate-multipart for a file within the size limit that fits the
\* pod succeeds, and a successful initiate-multipart has created a record in
\* status 'pending_multipart' (on which the session id and the part count are
\* stored, and for which the URLs of the parts 1..total_parts are returned).
C30_InitiateCreatesPendingMultipart ==
    \A d \in PodIds, size \in FileSizes :
        ( /\ size > 0
          /\ size <= max_file_size_bytes
          /\ NonFailedUsage(d) + size <= PodCapacity(d) )
          => /\ MultipartOutcome(d, size).code = 200
             /\ MultipartOutcome(d, size).record_created
             /\ MultipartOutcome(d, size).detail = "pending_multipart"

FinalizesOf(file_id, upload_id) ==
    {i \in DOMAIN multipart_calls :
        /\ multipart_calls[i].op = "complete_multipart_upload"
        /\ multipart_calls[i].file_id = file_id
        /\ multipart_calls[i].upload_id = upload_id}

UsesCustom(dumapod_id, p) == pods[dumapod_id].mode[p].use_custom

UrlFieldsSet(f) == {p \in Providers : records[f].url[p] # NoUrl}

InitiateFailureHandler(rec, reason) ==
    update_status_with_reason(rec, "failed", reason)

InitiateFaults == {"initiate_multipart_upload",
                   "generate_multipart_presigned_urls", "store_upload_id"}

C36_DownloadKeyIsUploadKey ==
    \A f \in DOMAIN records :
        (/\ records[f].upload_status = "completed"
         /\ keys[f].upload # NoKey
         /\ keys[f].download # NoKey)
            => keys[f].download = keys[f].upload


\* C37: every part_size the sizing policy returns for a file of at least one
\* byte lies within [5 MiB, 5 GiB], also when it was recomputed because the
\* part count would exceed 10000.
C37_PartSizeWithinProviderLimits ==
    sizing.pc = "returned" => PartSizeWithinLimits(sizing.part_size)


RECURSIVE SumFirst(_, _)
SumFirst(sizes, n) == IF n = 0 THEN 0 ELSE SumFirst(sizes, n - 1) + sizes[n]

\* the part sizes the response is built from after the sizing step
SizesAfterSizing ==
    ResponseSizes(initiation.file_size, initiation.part_size,
                  initiation.total_parts)

SuppliedPartSizeValid(file_size, part_size) ==
    /\ part_size >= MIN_PART_SIZE * MiB
    /\ part_size \div MiB <= MAX_PART_SIZE
    /\ PyCeilDiv(file_size, part_size) \in 1..max_parts

\* C39: a request with a supplied part_size gets past the sizing step, on to
\* the creation of its record, only if the part_size is within
\* [5 MiB, 5 GiB] and gives 1 to 10000 parts.
C39_SuppliedPartSizeValidated ==
    (/\ initiation.given
     /\ \/ initiation.pc = "sized"
        \/ initiation.pc = "raised" /\ initiation.detail = "create_file_record")
        => SuppliedPartSizeValid(initiation.file_size, initiation.part_size)


\* The storage-configuration rule on a stored pod: the primary provider is
\* enabled, and the secondary provider, if set, is enabled and is not the
\* primary.
StorageRuleHolds(pod) ==
    /\ pod.mode[pod.primary_storage].enable
    /\ pod.secondary_storage # NoProvider
         => /\ pod.mode[pod.secondary_storage].enable
            /\ pod.secondary_storage # pod.primary_storage

====
